---- MODULE Spec2Model ----
(***************************************************************************)
(* Container lifecycle event reconciler (package subscription):            *)
(* translateContainerEvents, saveContainerEvent, getContainerEvent and the *)
(* lazily bootstrapped container cache.                                    *)
(*                                                                         *)
(* ContainerEvent values live in a heap and are referred to by address,    *)
(* because the merge buffers, the cache and the returned envelope share    *)
(* pointers to the same *api.ContainerEvent.                               *)
(***************************************************************************)
EXTENDS Integers, Sequences, FiniteSets, TLC

VARIABLES
    heap,              \* address in use -> ContainerEvent (the Go heap)
    containerCreated,  \* ID -> address, Nil when the key is absent
    containerStarted,  \* ID -> address, Nil when the key is absent
    containerCache,    \* ID -> address, Nil when the key is absent
    cacheNil,          \* TRUE while containerCache is the nil map
    containerCacheOnce,\* "new" | "running" | "done"
    containerCacheLock,\* holder of the mutex, NoThread when free
    panicked,          \* a run-time panic has aborted the process: nothing
                       \* in these functions recovers, so no call follows it
    pc,                \* thread -> position (threaded specification)
    local,             \* thread -> locals of the call in progress
    out,               \* value last returned by translateContainerEvents
    ret,               \* value last returned by getContainerEvent
    last,              \* the last completed call and its inputs
    nCreated,          \* ID -> Created notifications fed so far
    nStarted,          \* ID -> Started notifications fed so far
    pendingCreated,    \* ID -> first notification of the open Created pair
    pendingStarted,    \* ID -> first notification of the open Started pair
    lookups,           \* ID -> results of the GetDockerConfig calls made
    history,           \* ID -> who wrote its cache entry, and what was fed
    bootRuns,          \* number of times newContainerCache has run
    steps              \* calls made so far

vars == <<heap, containerCreated, containerStarted, containerCache, cacheNil,
          containerCacheOnce, containerCacheLock, panicked, pc, local, out,
          ret, last, nCreated, nStarted, pendingCreated, pendingStarted,
          lookups, history, bootRuns, steps>>

----------------------------------------------------------------------------
(* Bounds and input sets *)

MaxSteps == 3

IDs == {"c1", "c2"}

Nil == 0
NumAddrs == 3 * Cardinality(IDs) + 2
Addrs == 1..NumAddrs

\* strings whose characters matter are sequences of characters
Sha256Prefix == <<"s", "h", "a", "2", "5", "6", ":">>
PrefixLen == 7

Web == [Name |-> "web", ImageID |-> <<"i", "1">>, Image |-> "nginx"]
Db == [Name |-> "db", ImageID |-> <<"i", "2">>, Image |-> "redis"]
NoMeta == [Name |-> "", ImageID |-> <<>>, Image |-> ""]

\* container.Event
Notif(id, state, m, pid, a, b, code) ==
    [ID |-> id, State |-> state, Name |-> m.Name, ImageID |-> m.ImageID,
     Image |-> m.Image, Pid |-> pid, DockerConfig |-> a, OciConfig |-> b,
     ExitCode |-> code]

NoNotif == Notif("", "None", NoMeta, 0, "", "", 0)

\* The notifications fed: per phase, payloads that differ in every field the
\* phase reads (empty and non-empty blobs of different lengths, zero and
\* non-zero PIDs, named and unnamed).
CreatedNotifs ==
    UNION { { Notif(c, "Created", Web, 0, "", "", 0),
              Notif(c, "Created", NoMeta, 0, "a", "x", 0),
              Notif(c, "Created", Db, 0, "bb", "", 0),
              Notif(c, "Created", Db, 0, "cc", "y", 0) } : c \in IDs }
StartedNotifs ==
    UNION { { Notif(c, "Started", NoMeta, 1, "a", "", 0),
              Notif(c, "Started", NoMeta, 0, "", "x", 0),
              Notif(c, "Started", Web, 2, "bb", "y", 0),
              Notif(c, "Started", NoMeta, 0, "", "", 0) } : c \in IDs }
StoppedNotifs ==
    UNION { { Notif(c, "Stopped", Web, 1, "a", "", 3),
              Notif(c, "Stopped", NoMeta, 0, "", "", 0),
              Notif(c, "Stopped", Db, 2, "", "x", 1) } : c \in IDs }
RemovedNotifs ==
    UNION { { Notif(c, "Removed", NoMeta, 0, "", "", 0),
              Notif(c, "Removed", Web, 1, "a", "x", 3) } : c \in IDs }
InvalidNotifs ==
    { Notif(c, "Invalid", NoMeta, 0, "", "", 0) : c \in IDs }
Notifications ==
    CreatedNotifs \cup StartedNotifs \cup StoppedNotifs \cup RemovedNotifs \cup InvalidNotifs

\* what container.GetDockerConfig and container.GetDockerConfigList can answer
DockerConfigs ==
    { [Name |-> "web", Image |-> Sha256Prefix \o <<"a", "b">>, ConfigImage |-> "nginx"],
      [Name |-> "db", Image |-> <<"a", "b">>, ConfigImage |-> "redis"] }
DockerLookups ==
    { [err |-> TRUE, dc |-> [Name |-> "", Image |-> <<>>, ConfigImage |-> ""]] }
    \cup { [err |-> FALSE, dc |-> d] : d \in DockerConfigs }
DockerLists ==
    { [err |-> TRUE, list |-> <<>>], [err |-> FALSE, list |-> <<>>] }
    \cup { [err |-> FALSE,
            list |-> << [ID |-> "c1", Name |-> "web",
                         Image |-> Sha256Prefix \o <<"a", "b">>,
                         ConfigImage |-> "nginx"] >>] }

----------------------------------------------------------------------------
(* api.ContainerEvent and its constructors *)

ContainerEvent(type) ==
    [Type |-> type, Name |-> "", ImageId |-> <<>>, ImageName |-> "",
     HostPid |-> 0, DockerConfigJson |-> "", OciConfigJson |-> "", ExitCode |-> 0]

\* stands for "no event" where one is compared with
FreeCell == ContainerEvent("FREE")

newContainerCreated(cID) == ContainerEvent("CREATED")
newContainerRunning(cID) == ContainerEvent("RUNNING")
newContainerExited(cID) == ContainerEvent("EXITED")
newContainerDestroyed(cID) == ContainerEvent("DESTROYED")

\* int32(ce.Pid): process IDs lie far inside the int32 range, where the
\* conversion changes nothing
Int32(x) == x

HasPrefix(s, prefix) ==
    Len(s) >= Len(prefix) /\ SubSeq(s, 1, Len(prefix)) = prefix

trimImageIdPrefix(ImageId) ==
    IF HasPrefix(ImageId, Sha256Prefix)
    THEN SubSeq(ImageId, PrefixLen + 1, Len(ImageId))
    ELSE ImageId

----------------------------------------------------------------------------
(* The process globals as one value, so that a handler is a composition of *)
(* its statements.                                                         *)

Globals ==
    [heap |-> heap, containerCreated |-> containerCreated,
     containerStarted |-> containerStarted, containerCache |-> containerCache,
     cacheNil |-> cacheNil, containerCacheOnce |-> containerCacheOnce,
     panicked |-> panicked, bootRuns |-> bootRuns]

Range(f) == { f[x] : x \in DOMAIN f }

\* addresses the globals refer to
Roots(g) ==
    (Range(g.containerCreated) \cup Range(g.containerStarted)
        \cup Range(g.containerCache)) \ {Nil}

\* addresses held in the locals of calls in progress
LocalRoots(l) == { l[t].ece : t \in DOMAIN l } \ {Nil}

\* &api.ContainerEvent{...}: the lowest address nothing refers to
Alloc(g, held) ==
    LET free == Addrs \ (Roots(g) \cup held)
    IN  CHOOSE a \in free : \A b \in free : a <= b

\* *p = e, for an address already in use or just allocated
Put(h, a, e) == [x \in DOMAIN h \cup {a} |-> IF x = a THEN e ELSE h[x]]

\* garbage collection: a cell nothing refers to is free again
Sweep(h, live) == [a \in DOMAIN h \cap live |-> h[a]]

----------------------------------------------------------------------------
(* The metadata cache *)

EmptyMap == [c \in IDs |-> Nil]

RECURSIVE fillCache(_, _, _)
\* the loop of newContainerCache over dockerConfigList
fillCache(g, list, held) ==
    IF list = <<>> THEN g
    ELSE LET dockerConfig == Head(list)
             a == Alloc(g, held)
             ce == [ContainerEvent("UNKNOWN") EXCEPT
                        !.Name = dockerConfig.Name,
                        !.ImageId = dockerConfig.Image,
                        !.ImageName = dockerConfig.ConfigImage]
         IN  fillCache([g EXCEPT !.heap = Put(@, a, ce),
                                 !.containerCache[dockerConfig.ID] = a],
                       Tail(list), held)

\* containerCache, _ = newContainerCache(): on an error the map returned, and
\* stored, is nil
newContainerCache(g, boot, held) ==
    IF boot.err
    THEN [g EXCEPT !.containerCache = EmptyMap, !.cacheNil = TRUE,
                   !.bootRuns = @ + 1]
    ELSE fillCache([g EXCEPT !.containerCache = EmptyMap, !.cacheNil = FALSE,
                             !.bootRuns = @ + 1],
                   boot.list, held)

\* containerCacheOnce.Do(...) run to completion by one caller
runOnce(g, boot, held) ==
    IF g.containerCacheOnce = "new"
    THEN [newContainerCache(g, boot, held) EXCEPT !.containerCacheOnce = "done"]
    ELSE g

\* cacheStore with the assignment left out
cacheStoreDropped(g, contId, a) ==
    IF g.cacheNil THEN [g EXCEPT !.panicked = TRUE] ELSE g

\* containerCache[contId] = ce: an assignment to an entry of a nil map panics
cacheStore(g, contId, a) ==
    IF g.cacheNil
    THEN [g EXCEPT !.panicked = TRUE]
    ELSE [g EXCEPT !.containerCache[contId] = a]

\* ce, ok := containerCache[contId]: reading a nil map finds nothing
cacheLoad(g, contId) == g.containerCache[contId]

saveContainerEvent(g, contId, a, boot, held) ==
    cacheStore(runOnce(g, boot, held \cup {a}), contId, a)

----------------------------------------------------------------------------
(* translateContainerEvents *)

\* translateCreated without the delete(containerCreated, ce.ID)
translateCreatedKeepsEntry(g, ce, held) ==
    LET buffered == g.containerCreated[ce.ID]
        a == IF buffered # Nil THEN buffered ELSE Alloc(g, held)
        e0 == IF buffered # Nil THEN g.heap[a]
              ELSE [newContainerCreated(ce.ID) EXCEPT
                        !.Name = ce.Name, !.ImageId = ce.ImageID,
                        !.ImageName = ce.Image]
        e1 == IF Len(ce.DockerConfig) > Len(e0.DockerConfigJson)
              THEN [e0 EXCEPT !.DockerConfigJson = ce.DockerConfig]
              ELSE e0
    IN  [g |-> [g EXCEPT !.heap = Put(@, a, e1), !.containerCreated[ce.ID] = a],
         ece |-> a, emit |-> buffered # Nil]

\* case container.ContainerCreated
translateCreated(g, ce, held) ==
    LET buffered == g.containerCreated[ce.ID]
        a == IF buffered # Nil THEN buffered ELSE Alloc(g, held)
        e0 == IF buffered # Nil THEN g.heap[a]
              ELSE [newContainerCreated(ce.ID) EXCEPT
                        !.Name = ce.Name, !.ImageId = ce.ImageID,
                        !.ImageName = ce.Image]
        e1 == IF Len(ce.DockerConfig) > Len(e0.DockerConfigJson)
              THEN [e0 EXCEPT !.DockerConfigJson = ce.DockerConfig]
              ELSE e0
    IN  [g |-> [g EXCEPT !.heap = Put(@, a, e1),
                         !.containerCreated[ce.ID] =
                             IF buffered = Nil THEN a ELSE Nil],
         ece |-> a, emit |-> buffered # Nil]

\* translateStarted without the test ce.Pid != 0
translateStartedAnyPid(g, ce, held) ==
    LET buffered == g.containerStarted[ce.ID]
        a == IF buffered # Nil THEN buffered ELSE Alloc(g, held)
        e0 == IF buffered # Nil THEN g.heap[a] ELSE newContainerRunning(ce.ID)
        e1 == [e0 EXCEPT !.HostPid = Int32(ce.Pid)]
        e2 == IF Len(ce.DockerConfig) > 0
              THEN [e1 EXCEPT !.DockerConfigJson = ce.DockerConfig] ELSE e1
        e3 == IF Len(ce.OciConfig) > 0
              THEN [e2 EXCEPT !.OciConfigJson = ce.OciConfig] ELSE e2
    IN  [g |-> [g EXCEPT !.heap = Put(@, a, e3),
                         !.containerStarted[ce.ID] =
                             IF buffered = Nil THEN a ELSE Nil],
         ece |-> a, emit |-> buffered # Nil]

\* translateStarted without the delete(containerStarted, ce.ID)
translateStartedKeepsEntry(g, ce, held) ==
    LET buffered == g.containerStarted[ce.ID]
        a == IF buffered # Nil THEN buffered ELSE Alloc(g, held)
        e0 == IF buffered # Nil THEN g.heap[a] ELSE newContainerRunning(ce.ID)
        e1 == IF ce.Pid # 0 THEN [e0 EXCEPT !.HostPid = Int32(ce.Pid)] ELSE e0
        e2 == IF Len(ce.DockerConfig) > 0
              THEN [e1 EXCEPT !.DockerConfigJson = ce.DockerConfig] ELSE e1
        e3 == IF Len(ce.OciConfig) > 0
              THEN [e2 EXCEPT !.OciConfigJson = ce.OciConfig] ELSE e2
    IN  [g |-> [g EXCEPT !.heap = Put(@, a, e3), !.containerStarted[ce.ID] = a],
         ece |-> a, emit |-> buffered # Nil]

\* case container.ContainerStarted
translateStarted(g, ce, held) ==
    LET buffered == g.containerStarted[ce.ID]
        a == IF buffered # Nil THEN buffered ELSE Alloc(g, held)
        e0 == IF buffered # Nil THEN g.heap[a] ELSE newContainerRunning(ce.ID)
        e1 == IF ce.Pid # 0 THEN [e0 EXCEPT !.HostPid = Int32(ce.Pid)] ELSE e0
        e2 == IF Len(ce.DockerConfig) > 0
              THEN [e1 EXCEPT !.DockerConfigJson = ce.DockerConfig] ELSE e1
        e3 == IF Len(ce.OciConfig) > 0
              THEN [e2 EXCEPT !.OciConfigJson = ce.OciConfig] ELSE e2
    IN  [g |-> [g EXCEPT !.heap = Put(@, a, e3),
                         !.containerStarted[ce.ID] =
                             IF buffered = Nil THEN a ELSE Nil],
         ece |-> a, emit |-> buffered # Nil]

\* translateStopped that also drops the pending Started entry of the ID
translateStoppedClearsPending(g, ce, held) ==
    LET a == Alloc(g, held)
        e0 == newContainerExited(ce.ID)
        e1 == IF ce.Pid # 0 THEN [e0 EXCEPT !.HostPid = Int32(ce.Pid)] ELSE e0
        e2 == IF Len(ce.DockerConfig) > 0
              THEN [e1 EXCEPT !.DockerConfigJson = ce.DockerConfig] ELSE e1
        e3 == [e2 EXCEPT !.Name = ce.Name, !.ImageId = ce.ImageID,
                         !.ImageName = ce.Image, !.ExitCode = ce.ExitCode]
    IN  [g |-> [g EXCEPT !.heap = Put(@, a, e3), !.containerStarted[ce.ID] = Nil],
         ece |-> a, emit |-> TRUE]

\* case container.ContainerStopped
translateStopped(g, ce, held) ==
    LET a == Alloc(g, held)
        e0 == newContainerExited(ce.ID)
        e1 == IF ce.Pid # 0 THEN [e0 EXCEPT !.HostPid = Int32(ce.Pid)] ELSE e0
        e2 == IF Len(ce.DockerConfig) > 0
              THEN [e1 EXCEPT !.DockerConfigJson = ce.DockerConfig] ELSE e1
        e3 == [e2 EXCEPT !.Name = ce.Name, !.ImageId = ce.ImageID,
                         !.ImageName = ce.Image, !.ExitCode = ce.ExitCode]
    IN  [g |-> [g EXCEPT !.heap = Put(@, a, e3)], ece |-> a, emit |-> TRUE]

\* case container.ContainerRemoved
translateRemoved(g, ce, held) ==
    LET a == Alloc(g, held)
    IN  [g |-> [g EXCEPT !.heap = Put(@, a, newContainerDestroyed(ce.ID))],
         ece |-> a, emit |-> TRUE]

\* the switch on ce.State; its default panics
KnownStates == {"Created", "Started", "Stopped", "Removed"}

translateSwitch(g, ce, held) ==
    CASE ce.State = "Created" -> translateCreated(g, ce, held)
      [] ce.State = "Started" -> translateStarted(g, ce, held)
      [] ce.State = "Stopped" -> translateStopped(g, ce, held)
      [] ce.State = "Removed" -> translateRemoved(g, ce, held)

\* if ece != nil: the final overwrite of both configuration blobs
postProcess(e, ce) ==
    LET e1 == IF Len(ce.DockerConfig) > 0
              THEN [e EXCEPT !.DockerConfigJson = ce.DockerConfig] ELSE e
    IN  IF Len(ce.OciConfig) > 0
        THEN [e1 EXCEPT !.OciConfigJson = ce.OciConfig] ELSE e1

\* everything translateContainerEvents does to the buffers and to the events
\* before its (single) call of saveContainerEvent
translateLocal(g, ce, held) ==
    LET p == translateSwitch(g, ce, held)
    IN  IF p.emit
        THEN [p EXCEPT !.g.heap[p.ece] = postProcess(p.g.heap[p.ece], ce)]
        ELSE p

NoOut ==
    [emitted |-> FALSE, ContainerId |-> "", ContainerName |-> "",
     ImageId |-> <<>>, ImageName |-> "", Container |-> Nil]

\* ev := newEventFromContainer(ce.ID) and the fields set on it
newEnvelope(cID, e, a) ==
    [emitted |-> TRUE, ContainerId |-> cID, ContainerName |-> e.Name,
     ImageId |-> e.ImageId, ImageName |-> e.ImageName, Container |-> a]

\* translateContainerEvents with a default case that returns nil
translateContainerEventsSkipsInvalid(g, ce, boot, held) ==
    IF ce.State \notin KnownStates
    THEN [g |-> g, out |-> NoOut]
    ELSE LET p == translateLocal(g, ce, held)
             g1 == saveContainerEvent(p.g, ce.ID, p.ece, boot, held)
         IN  [g |-> g1,
              out |-> IF p.emit /\ ~g1.panicked
                      THEN newEnvelope(ce.ID, g1.heap[p.ece], p.ece)
                      ELSE NoOut]

translateContainerEvents(g, ce, boot, held) ==
    IF ce.State \notin KnownStates
    THEN [g |-> [g EXCEPT !.panicked = TRUE], out |-> NoOut]
    ELSE LET p == translateLocal(g, ce, held)
             g1 == saveContainerEvent(p.g, ce.ID, p.ece, boot, held)
         IN  [g |-> g1,
              out |-> IF p.emit /\ ~g1.panicked
                      THEN newEnvelope(ce.ID, g1.heap[p.ece], p.ece)
                      ELSE NoOut]

----------------------------------------------------------------------------
(* getContainerEvent *)

NoRet == [ce |-> Nil, err |-> FALSE]

\* the entry built from a successful container.GetDockerConfig; its Type is
\* left at the zero value of the enumeration, CONTAINER_EVENT_TYPE_UNKNOWN
lookupEntry(dc) ==
    [ContainerEvent("UNKNOWN") EXCEPT
        !.Name = dc.Name, !.ImageId = trimImageIdPrefix(dc.Image),
        !.ImageName = dc.ConfigImage]

\* the closing "return nil, nil", reached on a hit and after a stored miss
getReturn(a) == [ce |-> Nil, err |-> FALSE]

\* getContainerEvent without the test of err after container.GetDockerConfig
getContainerEventCachesFailure(g, contId, boot, lookup, held) ==
    LET g1 == runOnce(g, boot, held)
        hit == cacheLoad(g1, contId)
    IN  IF hit # Nil
        THEN [g |-> g1, ret |-> getReturn(hit), called |-> FALSE]
        ELSE LET a == Alloc(g1, held)
                 g2 == [g1 EXCEPT !.heap = Put(@, a, lookupEntry(lookup.dc))]
                 g3 == saveContainerEvent(g2, contId, a, boot, held)
             IN  [g |-> g3,
                  ret |-> IF g3.panicked THEN NoRet ELSE getReturn(a),
                  called |-> TRUE]

getContainerEvent(g, contId, boot, lookup, held) ==
    LET g1 == runOnce(g, boot, held)
        hit == cacheLoad(g1, contId)
    IN  IF hit # Nil
        THEN [g |-> g1, ret |-> getReturn(hit), called |-> FALSE]
        ELSE IF lookup.err
        THEN [g |-> g1, ret |-> [ce |-> Nil, err |-> TRUE], called |-> TRUE]
        ELSE LET a == Alloc(g1, held)
                 g2 == [g1 EXCEPT !.heap = Put(@, a, lookupEntry(lookup.dc))]
                 g3 == saveContainerEvent(g2, contId, a, boot, held)
             IN  [g |-> g3,
                  ret |-> IF g3.panicked THEN NoRet ELSE getReturn(a),
                  called |-> TRUE]

----------------------------------------------------------------------------
(* Threads, used by the threaded specification; the sequential one leaves   *)
(* them idle.                                                              *)

Translator == "T"
Getters == {"G1", "G2"}
Threads == {Translator} \cup Getters
NoThread == "none"

NoDockerConfig == [Name |-> "", Image |-> <<>>, ConfigImage |-> ""]

\* the locals of a call: its argument (n or id), ece/ce, ok (hit), err, and
\* which map access the call is about to make
IdleLocal ==
    [n |-> NoNotif, id |-> "", ece |-> Nil, emit |-> FALSE, hit |-> FALSE,
     err |-> FALSE, stage |-> "none"]

\* what the last completed call was given and what it found: the notification
\* and the one that opened its pair, or the ID looked up, whether the ID was
\* cached before the call, and the collaborator's answer if it was asked
NoLast ==
    [op |-> "none", n |-> NoNotif, first |-> NoNotif, id |-> "",
     called |-> FALSE, lookupErr |-> FALSE, dc |-> NoDockerConfig,
     wasCached |-> FALSE, prev |-> FreeCell, onceWasDone |-> FALSE]

\* what has happened to an ID: which code path stored its present cache entry
\* ("none", "bootstrap", "translator" or "get"), whether a lifecycle
\* notification of the ID has been processed, and the name and image fields that its last
\* completed pair of Created notifications both carried, kept while only
\* Started notifications of the ID follow
NoSummary == [set |-> FALSE, Name |-> "", ImageID |-> <<>>, Image |-> ""]

NoHistory == [origin |-> "none", notified |-> FALSE, summary |-> NoSummary]

\* the event cached for an ID, FreeCell when there is none
Cached(c) == IF containerCache[c] # Nil THEN heap[containerCache[c]] ELSE FreeCell

\* container.GetDockerConfigList is asked only by the first use of the cache
BootChoices ==
    IF containerCacheOnce = "new" THEN DockerLists
    ELSE {[err |-> FALSE, list |-> <<>>]}

Init ==
    /\ heap = [a \in {} |-> FreeCell]
    /\ containerCreated = EmptyMap
    /\ containerStarted = EmptyMap
    /\ containerCache = EmptyMap
    /\ cacheNil = TRUE
    /\ containerCacheOnce = "new"
    /\ containerCacheLock = NoThread
    /\ panicked = FALSE
    /\ pc = [t \in Threads |-> "idle"]
    /\ local = [t \in Threads |-> IdleLocal]
    /\ out = NoOut
    /\ ret = NoRet
    /\ last = NoLast
    /\ nCreated = [c \in IDs |-> 0]
    /\ nStarted = [c \in IDs |-> 0]
    /\ pendingCreated = [c \in IDs |-> NoNotif]
    /\ pendingStarted = [c \in IDs |-> NoNotif]
    /\ lookups = [c \in IDs |-> <<>>]
    /\ history = [c \in IDs |-> NoHistory]
    /\ bootRuns = 0
    /\ steps = 0

\* the globals after a call, with the cells nothing refers to any more freed
SetGlobals(g, keep) ==
    /\ heap' = Sweep(g.heap, Roots(g) \cup keep)
    /\ containerCreated' = g.containerCreated
    /\ containerStarted' = g.containerStarted
    /\ containerCache' = g.containerCache
    /\ cacheNil' = g.cacheNil
    /\ containerCacheOnce' = g.containerCacheOnce
    /\ panicked' = g.panicked
    /\ bootRuns' = g.bootRuns

\* bookkeeping of the notifications fed: which one is the k-th of its phase and
\* ID, and which one opened the pair that is still open
Feed(n) ==
    /\ nCreated' = IF n.State = "Created"
                   THEN [nCreated EXCEPT ![n.ID] = @ + 1] ELSE nCreated
    /\ nStarted' = IF n.State = "Started"
                   THEN [nStarted EXCEPT ![n.ID] = @ + 1] ELSE nStarted
    /\ pendingCreated' =
           IF n.State = "Created"
           THEN [pendingCreated EXCEPT
                     ![n.ID] = IF @ = NoNotif THEN n ELSE NoNotif]
           ELSE pendingCreated
    /\ pendingStarted' =
           IF n.State = "Started"
           THEN [pendingStarted EXCEPT
                     ![n.ID] = IF @ = NoNotif THEN n ELSE NoNotif]
           ELSE pendingStarted

FirstOf(n) ==
    CASE n.State = "Created" -> pendingCreated[n.ID]
      [] n.State = "Started" -> pendingStarted[n.ID]
      [] OTHER -> NoNotif

\* who wrote each cache entry after a call that left the globals g1: the call
\* itself for its own ID if it stored (wrote), the bootstrap for the entries
\* that appeared otherwise
OriginAfter(g1, writer, id, wrote) ==
    [c \in IDs |->
        IF wrote /\ c = id THEN writer
        ELSE IF containerCache[c] = Nil /\ g1.containerCache[c] # Nil
        THEN "bootstrap"
        ELSE history[c].origin]

SameMeta(n, m) ==
    n.Name = m.Name /\ n.ImageID = m.ImageID /\ n.Image = m.Image

SummaryAfter(n) ==
    CASE n.State = "Started" -> history[n.ID].summary
      [] n.State = "Created" /\ FirstOf(n) # NoNotif /\ SameMeta(n, FirstOf(n)) ->
            [set |-> TRUE, Name |-> n.Name, ImageID |-> n.ImageID,
             Image |-> n.Image]
      [] OTHER -> NoSummary

Record(g1, writer, id, wrote, notified, summary) ==
    LET origin == OriginAfter(g1, writer, id, wrote)
    IN  history' = [c \in IDs |->
                       IF c = id
                       THEN [origin |-> origin[c],
                             notified |-> history[c].notified \/ notified,
                             summary |-> summary]
                       ELSE [history[c] EXCEPT !.origin = origin[c]]]

\* one call of translateContainerEvents, run to completion
Translate ==
    /\ ~panicked
    /\ steps < MaxSteps
    /\ \E n \in Notifications, boot \in BootChoices :
          LET r == translateContainerEvents(Globals, n, boot, {})
          IN  /\ SetGlobals(r.g, {r.out.Container} \ {Nil})
              /\ out' = r.out
              /\ last' = [NoLast EXCEPT !.op = "translate", !.n = n,
                                        !.first = FirstOf(n), !.id = n.ID,
                                        !.wasCached = containerCache[n.ID] # Nil,
                                        !.prev = Cached(n.ID),
                                        !.onceWasDone = containerCacheOnce = "done"]
              /\ Feed(n)
              /\ Record(r.g, "translator", n.ID,
                        n.State \in KnownStates /\ ~r.g.panicked,
                        n.State \in KnownStates, SummaryAfter(n))
    /\ steps' = steps + 1
    /\ UNCHANGED <<containerCacheLock, pc, local, ret, lookups>>

\* one call of getContainerEvent, run to completion
Get ==
    /\ ~panicked
    /\ steps < MaxSteps
    /\ \E c \in IDs, boot \in BootChoices, lookup \in DockerLookups :
          LET r == getContainerEvent(Globals, c, boot, lookup, {})
          IN  /\ SetGlobals(r.g, {out.Container, r.ret.ce} \ {Nil})
              /\ ret' = r.ret
              /\ last' = [NoLast EXCEPT !.op = "get", !.id = c,
                                        !.called = r.called,
                                        !.lookupErr = r.called /\ lookup.err,
                                        !.dc = IF r.called /\ ~lookup.err
                                               THEN lookup.dc ELSE NoDockerConfig,
                                        !.wasCached = containerCache[c] # Nil,
                                        !.prev = Cached(c),
                                        !.onceWasDone = containerCacheOnce = "done"]
              /\ lookups' = IF r.called
                            THEN [lookups EXCEPT ![c] =
                                     Append(@, IF lookup.err THEN "err" ELSE "ok")]
                            ELSE lookups
              /\ Record(r.g, "get", c,
                        r.called /\ ~lookup.err /\ ~r.g.panicked,
                        FALSE, history[c].summary)
    /\ steps' = steps + 1
    /\ UNCHANGED <<containerCacheLock, pc, local, out, nCreated, nStarted,
                   pendingCreated, pendingStarted>>

Next == Translate \/ Get

Spec == Init /\ [][Next]_vars

----------------------------------------------------------------------------
(* The threaded specification: one translator thread (the merge buffers    *)
(* have a single consumer) and getter threads calling getContainerEvent,   *)
(* each call taken one synchronisation step at a time.                     *)
(*                                                                         *)
(* pc: idle -> once -> [boot ->] lock -> locked -> unlock                   *)
(*          -> (lookup -> once -> ... , getters on a miss) -> ret -> idle  *)

\* the threads work on one container: the races are those on one ID
ThreadIDs == {"c1"}

\* the notifications the translator thread is fed: those with no OCI blob
ThreadNotifs ==
    { n \in Notifications : n.ID \in ThreadIDs /\ n.OciConfig = "" }

Held == LocalRoots(local) \cup ({out.Container} \ {Nil})

\* translateContainerEvents up to its call of saveContainerEvent: the switch
\* and the final overwrite, done on the buffers and events with no lock held
T_Begin ==
    /\ ~panicked /\ pc[Translator] = "idle" /\ steps < MaxSteps
    /\ \E n \in ThreadNotifs :
          IF n.State \notin KnownStates
          THEN /\ panicked' = TRUE
               /\ UNCHANGED <<heap, containerCreated, containerStarted,
                              containerCache, cacheNil, containerCacheOnce,
                              bootRuns, pc, local>>
          ELSE LET p == translateLocal(Globals, n, Held)
               IN  /\ SetGlobals(p.g, Held \cup {p.ece})
                   /\ local' = [local EXCEPT ![Translator] =
                                   [IdleLocal EXCEPT !.n = n, !.id = n.ID,
                                                     !.ece = p.ece,
                                                     !.emit = p.emit,
                                                     !.stage = "write"]]
                   /\ pc' = [pc EXCEPT ![Translator] = "once"]
    /\ steps' = steps + 1
    /\ UNCHANGED <<containerCacheLock, out, ret, last, nCreated, nStarted,
                   pendingCreated, pendingStarted, lookups, history>>

\* getContainerEvent(contId) is called
G_Begin(t) ==
    /\ ~panicked /\ pc[t] = "idle" /\ steps < MaxSteps
    /\ \E c \in ThreadIDs :
          local' = [local EXCEPT ![t] = [IdleLocal EXCEPT !.id = c, !.stage = "read"]]
    /\ pc' = [pc EXCEPT ![t] = "once"]
    /\ steps' = steps + 1
    /\ UNCHANGED <<heap, containerCreated, containerStarted, containerCache,
                   cacheNil, containerCacheOnce, containerCacheLock, panicked,
                   out, ret, last, nCreated, nStarted, pendingCreated,
                   pendingStarted, lookups, history, bootRuns>>

\* a Once that lets callers through while the function is still running
OncePassedEarly == containerCacheOnce # "new"

\* containerCacheOnce.Do: whether the caller may go on without running the
\* function, which is once the first call of Do has returned
OncePassed == containerCacheOnce = "done"

\* containerCacheOnce.Do: the first caller runs the function, the callers
\* arriving while it runs wait, the later ones go on at once
OnceDo(t) ==
    /\ ~panicked /\ pc[t] = "once"
    /\ \/ /\ containerCacheOnce = "new"
          /\ containerCacheOnce' = "running"
          /\ pc' = [pc EXCEPT ![t] = "boot"]
       \/ /\ containerCacheOnce # "new" /\ OncePassed
          /\ pc' = [pc EXCEPT ![t] = "lock"]
          /\ UNCHANGED containerCacheOnce
    /\ UNCHANGED <<heap, containerCreated, containerStarted, containerCache,
                   cacheNil, containerCacheLock, panicked, local, out, ret,
                   last, nCreated, nStarted, pendingCreated, pendingStarted,
                   lookups, history, bootRuns, steps>>

\* containerCache, _ = newContainerCache() returns inside the Once
BootDone(t) ==
    /\ ~panicked /\ pc[t] = "boot"
    /\ \E boot \in DockerLists :
          LET g == [newContainerCache(Globals, boot, Held)
                        EXCEPT !.containerCacheOnce = "done"]
          IN  SetGlobals(g, Held)
    /\ pc' = [pc EXCEPT ![t] = "lock"]
    /\ UNCHANGED <<containerCacheLock, local, out, ret, last, nCreated,
                   nStarted, pendingCreated, pendingStarted, lookups, history, steps>>

\* containerCacheLock.Lock()
Lock(t) ==
    /\ ~panicked /\ pc[t] = "lock" /\ containerCacheLock = NoThread
    /\ containerCacheLock' = t
    /\ pc' = [pc EXCEPT ![t] = "locked"]
    /\ UNCHANGED <<heap, containerCreated, containerStarted, containerCache,
                   cacheNil, containerCacheOnce, panicked, local, out, ret,
                   last, nCreated, nStarted, pendingCreated, pendingStarted,
                   lookups, history, bootRuns, steps>>

\* containerCache[contId] = ce, in saveContainerEvent
MapWrite(t) ==
    /\ ~panicked /\ pc[t] = "locked" /\ local[t].stage = "write"
    /\ SetGlobals(cacheStore(Globals, local[t].id, local[t].ece), Held)
    /\ pc' = [pc EXCEPT ![t] = "unlock"]
    /\ UNCHANGED <<containerCacheLock, local, out, ret, last, nCreated,
                   nStarted, pendingCreated, pendingStarted, lookups, history, steps>>

\* ce, ok := containerCache[contId], in getContainerEvent
MapRead(t) ==
    /\ ~panicked /\ pc[t] = "locked" /\ local[t].stage = "read"
    /\ local' = [local EXCEPT ![t].hit = cacheLoad(Globals, local[t].id) # Nil]
    /\ pc' = [pc EXCEPT ![t] = "unlock"]
    /\ UNCHANGED <<heap, containerCreated, containerStarted, containerCache,
                   cacheNil, containerCacheOnce, containerCacheLock, panicked,
                   out, ret, last, nCreated, nStarted, pendingCreated,
                   pendingStarted, lookups, history, bootRuns, steps>>

\* getContainerEvent that unlocks after its lookup instead of before it
UnlockAfterLookup(t) ==
    /\ ~panicked /\ pc[t] = "unlock"
    /\ containerCacheLock' =
           IF local[t].stage = "read" /\ ~local[t].hit THEN t ELSE NoThread
    /\ pc' = [pc EXCEPT ![t] =
                 IF local[t].stage = "read" /\ ~local[t].hit
                 THEN "lookup" ELSE "ret"]
    /\ UNCHANGED <<heap, containerCreated, containerStarted, containerCache,
                   cacheNil, containerCacheOnce, panicked, local, out, ret,
                   last, nCreated, nStarted, pendingCreated, pendingStarted,
                   lookups, history, bootRuns, steps>>

\* containerCacheLock.Unlock()
Unlock(t) ==
    /\ ~panicked /\ pc[t] = "unlock"
    /\ containerCacheLock' = NoThread
    /\ pc' = [pc EXCEPT ![t] =
                 IF local[t].stage = "read" /\ ~local[t].hit
                 THEN "lookup" ELSE "ret"]
    /\ UNCHANGED <<heap, containerCreated, containerStarted, containerCache,
                   cacheNil, containerCacheOnce, panicked, local, out, ret,
                   last, nCreated, nStarted, pendingCreated, pendingStarted,
                   lookups, history, bootRuns, steps>>

\* the miss path of getContainerEvent: container.GetDockerConfig answers
G_Lookup(t) ==
    /\ ~panicked /\ pc[t] = "lookup"
    /\ \E lookup \in DockerLookups :
          IF lookup.err
          THEN /\ local' = [local EXCEPT ![t].err = TRUE]
               /\ pc' = [pc EXCEPT ![t] = "ret"]
               /\ UNCHANGED heap
          ELSE LET a == Alloc(Globals, Held)
               IN  /\ heap' = Put(heap, a, lookupEntry(lookup.dc))
                   /\ local' = [local EXCEPT ![t].ece = a, ![t].stage = "write"]
                   /\ pc' = [pc EXCEPT ![t] = "once"]
    /\ UNCHANGED <<containerCreated, containerStarted, containerCache, cacheNil,
                   containerCacheOnce, containerCacheLock, panicked, out, ret,
                   last, nCreated, nStarted, pendingCreated, pendingStarted,
                   lookups, history, bootRuns, steps>>

\* translateContainerEvents returns: the envelope, or nil for the first of a pair
T_Return ==
    /\ ~panicked /\ pc[Translator] = "ret"
    /\ LET l == local[Translator]
       IN  /\ out' = IF l.emit THEN newEnvelope(l.id, heap[l.ece], l.ece) ELSE NoOut
           /\ heap' = Sweep(heap, Roots(Globals)
                                    \cup LocalRoots([local EXCEPT ![Translator] = IdleLocal])
                                    \cup (IF l.emit THEN {l.ece} ELSE {}))
    /\ local' = [local EXCEPT ![Translator] = IdleLocal]
    /\ pc' = [pc EXCEPT ![Translator] = "idle"]
    /\ UNCHANGED <<containerCreated, containerStarted, containerCache, cacheNil,
                   containerCacheOnce, containerCacheLock, panicked, ret, last,
                   nCreated, nStarted, pendingCreated, pendingStarted,
                   lookups, history, bootRuns, steps>>

\* getContainerEvent returns
G_Return(t) ==
    /\ ~panicked /\ pc[t] = "ret"
    /\ ret' = IF local[t].err THEN [ce |-> Nil, err |-> TRUE]
              ELSE getReturn(local[t].ece)
    /\ local' = [local EXCEPT ![t] = IdleLocal]
    /\ pc' = [pc EXCEPT ![t] = "idle"]
    /\ UNCHANGED <<heap, containerCreated, containerStarted, containerCache,
                   cacheNil, containerCacheOnce, containerCacheLock, panicked,
                   out, last, nCreated, nStarted, pendingCreated, pendingStarted,
                   lookups, history, bootRuns, steps>>

NextThreads ==
    \/ T_Begin
    \/ T_Return
    \/ \E t \in Getters : G_Begin(t)
    \/ \E t \in Getters : G_Lookup(t)
    \/ \E t \in Getters : G_Return(t)
    \/ \E t \in Threads : OnceDo(t)
    \/ \E t \in Threads : BootDone(t)
    \/ \E t \in Threads : Lock(t)
    \/ \E t \in Threads : MapWrite(t)
    \/ \E t \in Threads : MapRead(t)
    \/ \E t \in Threads : Unlock(t)

SpecThreads == Init /\ [][NextThreads]_vars

----------------------------------------------------------------------------
(* Properties of the sequential specification *)

Translated(state) == last.op = "translate" /\ last.n.State = state

\* the event the last translation returned; meaningful when out.emitted
Emitted == heap[out.Container]

\* C1: for every ID and every interleaving with other IDs and phases, the k-th
\* Created notification of the ID emits an event if and only if k is even, and
\* so does the k-th Started notification: the first of each pair returns
\* nothing, the second returns one event.
C1_EmitsOnSecondOfPair ==
    /\ Translated("Created") =>
          (out.emitted <=> nCreated[last.id] % 2 = 0)
    /\ Translated("Started") =>
          (out.emitted <=> nStarted[last.id] % 2 = 0)
    /\ (last.op = "translate" /\ out.emitted) => out.ContainerId = last.id

\* a second Created of c1 emits although a notification of c2 came in between
C1_Witness ==
    /\ Translated("Created") /\ nCreated[last.id] = 2 /\ out.emitted
    /\ \E d \in IDs \ {last.id} : nCreated[d] + nStarted[d] = 1

MaxLen(a, b) == IF Len(a) > Len(b) THEN Len(a) ELSE Len(b)

\* C2: two Created notifications of one ID emit exactly one event, of phase
\* Created, with the name and image fields of the first notification and with
\* configuration blob A equal to the longer of the two notifications' blobs.
C2_CreatedKeepsLongerBlob ==
    (Translated("Created") /\ last.first # NoNotif) =>
        /\ out.emitted
        /\ Emitted.Type = "CREATED"
        /\ Emitted.Name = last.first.Name
        /\ Emitted.ImageId = last.first.ImageID
        /\ Emitted.ImageName = last.first.Image
        /\ Emitted.DockerConfigJson \in {last.first.DockerConfig, last.n.DockerConfig}
        /\ Len(Emitted.DockerConfigJson) =
               MaxLen(last.first.DockerConfig, last.n.DockerConfig)

\* C3: two Started notifications of one ID emit exactly one event, of phase
\* Running; its host PID is the last non-zero PID of the two (0 if both are
\* 0), and each configuration blob is the second notification's if that is
\* non-empty, otherwise the first's.
C3_StartedMerge ==
    (Translated("Started") /\ last.first # NoNotif) =>
        /\ out.emitted
        /\ Emitted.Type = "RUNNING"
        /\ Emitted.HostPid =
               (IF last.n.Pid # 0 THEN last.n.Pid ELSE last.first.Pid)
        /\ Emitted.DockerConfigJson =
               (IF last.n.DockerConfig # "" THEN last.n.DockerConfig
                ELSE last.first.DockerConfig)
        /\ Emitted.OciConfigJson =
               (IF last.n.OciConfig # "" THEN last.n.OciConfig
                ELSE last.first.OciConfig)

\* the second Started has PID 0 and no blob A, which the event keeps from the
\* first, and brings a blob B the first did not have
C3_Witness ==
    /\ Translated("Started") /\ last.first # NoNotif /\ out.emitted
    /\ last.n.Pid = 0 /\ last.first.Pid # 0
    /\ last.n.DockerConfig = "" /\ last.first.DockerConfig # ""
    /\ last.n.OciConfig # "" /\ last.first.OciConfig = ""

\* C4: a Removed notification for an ID leaves the cache entry of that ID
\* (present or absent) as it was, and emits exactly one Destroyed event.
\* Stated of the calls that return.
C4_RemovedLeavesCache ==
    (Translated("Removed") /\ ~panicked) =>
        /\ out.emitted
        /\ Emitted.Type = "DESTROYED"
        /\ (containerCache[last.id] # Nil) = last.wasCached
        /\ Cached(last.id) = last.prev

\* C5: once a Created event has been emitted for an ID, getContainerEvent for
\* that ID returns an event whose phase, name, image id, image name and
\* configuration blobs are those of the emitted event.
C5_GetReturnsEmitted ==
    (last.op = "get" /\ out.emitted /\ out.ContainerId = last.id
        /\ Emitted.Type = "CREATED") =>
        /\ ~ret.err
        /\ ret.ce # Nil
        /\ heap[ret.ce] = Emitted

\* C6: on a miss whose single-container lookup succeeds, getContainerEvent
\* stores an entry built from the looked-up name, image id (sha256: prefix
\* stripped) and image name under the ID, and returns that entry, no error.
\* Stated of the calls that return.
C6_MissReturnsEntry ==
    (last.op = "get" /\ last.called /\ ~last.lookupErr /\ ~panicked) =>
        /\ ~ret.err
        /\ ret.ce # Nil
        /\ ret.ce = containerCache[last.id]
        /\ heap[ret.ce].Name = last.dc.Name
        /\ heap[ret.ce].ImageId = trimImageIdPrefix(last.dc.Image)
        /\ heap[ret.ce].ImageName = last.dc.ConfigImage

\* C7: when the bootstrap enumeration has failed the cache behaves as an empty
\* cache: every later put and every later get completes normally.
C7_FailedBootstrapIsEmptyCache ==
    (containerCacheOnce = "done" /\ cacheNil) => ~panicked

\* C9 as stated: with a successfully bootstrapped cache that does not hold the
\* ID, the first getContainerEvent makes exactly one lookup call and caches
\* the result, and a second get makes no further call.
C9_OneLookupPerID ==
    ~cacheNil =>
        /\ \A c \in IDs : Len(lookups[c]) <= 1
        /\ (last.op = "get" /\ last.called) => containerCache[last.id] # Nil

\* C9 as amended: with a successfully bootstrapped cache, a get of an ID the
\* cache does not hold makes exactly one lookup call and a get of an ID it
\* holds makes none; if the lookup succeeds its result is cached and no later
\* get of that ID calls the collaborator again.
C9_OneSuccessfulLookupPerID ==
    ~cacheNil =>
        /\ \A c \in IDs : \A i \in 1..(Len(lookups[c]) - 1) : lookups[c][i] = "err"
        /\ (last.op = "get" /\ last.onceWasDone) => (last.called <=> ~last.wasCached)
        /\ (last.op = "get" /\ last.called /\ ~last.lookupErr) =>
               /\ containerCache[last.id] # Nil
               /\ Cached(last.id).Name = last.dc.Name

\* the second get of an ID finds what the first one looked up and stored
C9_Witness ==
    /\ ~cacheNil /\ last.op = "get" /\ ~last.called
    /\ lookups[last.id] = <<"ok">>

\* C10: every Stopped notification, whatever came before it, emits exactly one
\* Exited event with the notification's exit code, name, image id and image
\* name; Stopped and Removed are never suppressed.
C10_StoppedAlwaysEmits ==
    /\ Translated("Stopped") =>
          /\ out.emitted
          /\ Emitted.Type = "EXITED"
          /\ Emitted.ExitCode = last.n.ExitCode
          /\ Emitted.Name = last.n.Name
          /\ Emitted.ImageId = last.n.ImageID
          /\ Emitted.ImageName = last.n.Image
    /\ Translated("Removed") => out.emitted

\* C11: every Removed notification, whatever fields it carries (non-empty
\* configuration blobs A or B included), emits exactly one Destroyed event in
\* which no metadata field is populated: name, image id, image name, host
\* PID, both configuration blobs and exit code are all empty or zero.
\* Stated of the calls that return.
C11_RemovedEmitsBareDestroyed ==
    (Translated("Removed") /\ ~panicked) =>
        /\ out.emitted
        /\ Emitted.Type = "DESTROYED"
        /\ Emitted.Name = "" /\ Emitted.ImageId = <<>> /\ Emitted.ImageName = ""
        /\ Emitted.HostPid = 0 /\ Emitted.ExitCode = 0
        /\ Emitted.DockerConfigJson = "" /\ Emitted.OciConfigJson = ""

\* the step is a call of getContainerEvent whose lookup failed
FailedLookupStep == last'.op = "get" /\ last'.called /\ last'.lookupErr

\* C12: when the single-container lookup fails during a getContainerEvent
\* miss, the error is returned to the caller and the cache is left as it was
\* (as the bootstrap left it, if this call was the first to use the cache):
\* no entry is created for the ID, so a later get of the same ID, finding no
\* entry, asks the collaborator again.
C12_FailedLookupCachesNothing ==
    [][/\ FailedLookupStep =>
             /\ ret'.err /\ ret'.ce = Nil /\ ~panicked'
             /\ containerCache'[last'.id] = Nil
             /\ \A c \in IDs :
                   \/ containerCache'[c] = containerCache[c] /\ Cached(c)' = Cached(c)
                   \/ /\ containerCacheOnce = "new" /\ containerCache[c] = Nil
                      /\ history'[c].origin = "bootstrap"
             /\ containerCacheOnce = "done" => cacheNil' = cacheNil
       /\ (last'.op = "get" /\ containerCacheOnce = "done"
              /\ containerCache[last'.id] = Nil) => last'.called
      ]_vars

\* a get of an ID whose earlier lookup failed asks the collaborator again,
\* with a bootstrapped cache, and fails again
C12_Witness ==
    /\ last.op = "get" /\ last.called /\ last.lookupErr /\ ret.err
    /\ lookups[last.id] = <<"err", "err">>
    /\ ~cacheNil /\ containerCache[last.id] = Nil

\* the events held in the merge buffers, FreeCell when there is none
BufferedCreated(c) ==
    IF containerCreated[c] # Nil THEN heap[containerCreated[c]] ELSE FreeCell
BufferedStarted(c) ==
    IF containerStarted[c] # Nil THEN heap[containerStarted[c]] ELSE FreeCell

\* C13: a notification whose phase tag is outside {Created, Started, Stopped,
\* Removed} drives translateContainerEvents into a fatal outcome: no event is
\* emitted, and neither merge buffer nor the cache is modified for it.
C13_InvalidPhaseIsFatal ==
    [][(last'.op = "translate" /\ last'.n.State \notin KnownStates) =>
          /\ panicked'
          /\ out' = NoOut
          /\ containerCreated' = containerCreated
          /\ containerStarted' = containerStarted
          /\ containerCache' = containerCache
          /\ cacheNil' = cacheNil
          /\ containerCacheOnce' = containerCacheOnce
          /\ \A c \in IDs : /\ BufferedCreated(c)' = BufferedCreated(c)
                            /\ BufferedStarted(c)' = BufferedStarted(c)
                            /\ Cached(c)' = Cached(c)
      ]_vars

\* the invalid notification arrives while a Created pair of its ID is open
\* and the cache holds an entry for the ID
C13_Witness ==
    /\ last.op = "translate" /\ last.n.State \notin KnownStates /\ panicked
    /\ containerCreated[last.id] # Nil /\ containerCache[last.id] # Nil

\* C14: the cache entry of an ID is a running summary across transitions:
\* after two Created notifications carrying name N, image id I and image name
\* M, followed by any number of Started notifications of the same ID, the
\* cache entry of the ID still has name N, image id I and image name M.
C14_CacheKeepsCreatedFields ==
    \A c \in IDs :
        history[c].summary.set =>
            /\ containerCache[c] # Nil
            /\ Cached(c).Name = history[c].summary.Name
            /\ Cached(c).ImageId = history[c].summary.ImageID
            /\ Cached(c).ImageName = history[c].summary.Image

\* C15: in every reachable state a cache entry has phase Unknown only if it
\* was created by the bootstrap enumeration and no lifecycle notification of
\* its ID has been processed since; the entries created by any other path
\* (the translator's writes, the miss path of get) never have phase Unknown.
C15_UnknownOnlyFromBootstrap ==
    \A c \in IDs :
        (containerCache[c] # Nil /\ Cached(c).Type = "UNKNOWN") =>
            /\ history[c].origin = "bootstrap"
            /\ ~history[c].notified

\* the step translates a notification of phase state for the ID c
TranslatesStep(state, c) ==
    last'.op = "translate" /\ last'.n.State = state /\ last'.n.ID = c

\* C16: in every reachable state of a sequentially driven translator, the
\* Created merge buffer holds an entry for an ID exactly when an odd number
\* of Created notifications of the ID have been processed, and the Started
\* buffer likewise for the Started notifications; an entry is removed by the
\* second notification of its pair and by nothing else.
C16_BufferParity ==
    /\ [](\A c \in IDs :
            /\ (containerCreated[c] # Nil) <=> (nCreated[c] % 2 = 1)
            /\ (containerStarted[c] # Nil) <=> (nStarted[c] % 2 = 1))
    /\ [][\A c \in IDs :
            /\ (containerCreated[c] # Nil /\ containerCreated'[c] = Nil) =>
                   (TranslatesStep("Created", c) /\ nCreated'[c] % 2 = 0)
            /\ (containerStarted[c] # Nil /\ containerStarted'[c] = Nil) =>
                   (TranslatesStep("Started", c) /\ nStarted'[c] % 2 = 0)
          ]_vars

\* the Started pair of an ID is complete and its buffer empty again, while
\* the Created pair of the same ID is still open
C16_Witness ==
    \E c \in IDs :
        /\ nStarted[c] = 2 /\ containerStarted[c] = Nil
        /\ nCreated[c] = 1 /\ containerCreated[c] # Nil

\* what a step that translates a notification leaves alone in the merge
\* buffers: the entries of the other IDs, and the entries of its own ID in
\* the buffer of the other phase
BufferFrame ==
    \A d \in IDs :
        /\ (d # last'.n.ID \/ last'.n.State # "Created") =>
               /\ containerCreated'[d] = containerCreated[d]
               /\ BufferedCreated(d)' = BufferedCreated(d)
        /\ (d # last'.n.ID \/ last'.n.State # "Started") =>
               /\ containerStarted'[d] = containerStarted[d]
               /\ BufferedStarted(d)' = BufferedStarted(d)

CacheKeysKept == \A d \in IDs : containerCache[d] # Nil => containerCache'[d] # Nil

\* C20 as stated: translating a notification of an ID changes only state
\* keyed by that ID: no merge-buffer entry and no cache entry of another ID
\* changes, the only merge buffer that can change is the one of the
\* notification's phase (none for Stopped and Removed), and the cache key set
\* never shrinks.
C20_TranslateFrame ==
    [][/\ last'.op = "translate" =>
             /\ BufferFrame
             /\ \A d \in IDs \ {last'.n.ID} :
                   containerCache'[d] = containerCache[d] /\ Cached(d)' = Cached(d)
       /\ CacheKeysKept
      ]_vars

\* C20 as amended: the same, except that the call that makes the first
\* access to the cache runs the bootstrap, which adds the entries (of phase
\* Unknown) of the containers it enumerates, whatever their IDs.
C20_TranslateFrameButBootstrap ==
    [][/\ last'.op = "translate" =>
             /\ BufferFrame
             /\ \A d \in IDs \ {last'.n.ID} :
                   \/ containerCache'[d] = containerCache[d] /\ Cached(d)' = Cached(d)
                   \/ /\ containerCacheOnce = "new" /\ containerCacheOnce' = "done"
                      /\ containerCache[d] = Nil
                      /\ history'[d].origin = "bootstrap"
                      /\ Cached(d)'.Type = "UNKNOWN"
       /\ CacheKeysKept
      ]_vars

\* a Stopped arrives between the two halves of a Started pair of its ID and
\* leaves the pending entry, while the cache holds an entry of another ID
C20_Witness ==
    /\ Translated("Stopped") /\ out.emitted
    /\ containerStarted[last.id] # Nil /\ nStarted[last.id] = 1
    /\ containerCache[last.id] = out.Container
    /\ \E d \in IDs \ {last.id} : containerCache[d] # Nil

----------------------------------------------------------------------------
(* Properties of the threaded specification *)

PastOnce == {"lock", "locked", "unlock"}

\* C8: however many callers of getContainerEvent and saveContainerEvent race
\* on the first access, newContainerCache runs at most once, and a caller
\* goes on to lock, read or write the map only after that run has completed.
C8_BootstrapOnce ==
    /\ bootRuns <= 1
    /\ Cardinality({ t \in Threads : pc[t] = "boot" }) <= 1
    /\ \A t \in Threads :
          pc[t] \in PastOnce => (containerCacheOnce = "done" /\ bootRuns = 1)

\* the race: the bootstrap is running in one caller while another caller,
\* in its first access too, waits in containerCacheOnce.Do
C8_Witness ==
    \E t1, t2 \in Threads :
        /\ t1 # t2 /\ pc[t1] = "boot" /\ pc[t2] = "once"
        /\ containerCacheOnce = "running" /\ bootRuns = 0

\* the positions of a call in an introspection call: the enumeration of
\* newContainerCache, the lookup of getContainerEvent
InIntrospection == {"boot", "lookup"}

\* C17: under any interleaving of getContainerEvent, saveContainerEvent and
\* the bootstrap, a caller never holds the cache mutex while its
\* runtime-introspection call (container enumeration or single-container
\* lookup) is in progress; the lock is held only for the map read or the map
\* write itself.
C17_NoLockDuringIntrospection ==
    /\ \A t \in Threads : pc[t] \in InIntrospection => containerCacheLock # t
    /\ \A t \in Threads : containerCacheLock = t => pc[t] \in {"locked", "unlock"}
    /\ containerCacheLock \in Threads \cup {NoThread}

\* one getter is in its lookup while another caller holds the mutex for its
\* own map access
C17_Witness ==
    \E t1, t2 \in Threads :
        /\ t1 # t2 /\ pc[t1] = "lookup"
        /\ containerCacheLock = t2 /\ pc[t2] = "locked"

\* the step changes what the cache holds for c: the map entry or a field of
\* the event it points to
CachedDataWritten(c) ==
    containerCache'[c] # containerCache[c] \/ Cached(c)' # Cached(c)

\* the step is the map access of the thread that holds the mutex
UnderLock ==
    /\ containerCacheLock # NoThread
    /\ containerCacheLock' = containerCacheLock
    /\ pc[containerCacheLock] = "locked"
    /\ pc'[containerCacheLock] = "unlock"

\* C18: the metadata cache is safe for concurrent access: with a translator
\* thread running concurrently with cache readers, every write of cached
\* data once the cache is bootstrapped, every modification of a
\* ContainerEvent that is already stored in the cache included, happens
\* while the single cache mutex is held by the writer.
C18_CachedDataWrittenUnderLock ==
    [][\A c \in IDs :
          (containerCacheOnce = "done" /\ CachedDataWritten(c)) => UnderLock
      ]_vars

\* the phases of the events the translator builds
LifecycleTypes == {"CREATED", "RUNNING", "EXITED", "DESTROYED"}

\* the step is the map write of the miss path of getContainerEvent in t
GetterStores(t) ==
    pc[t] = "locked" /\ local[t].stage = "write" /\ pc'[t] = "unlock"

\* C19: under any interleaving of getContainerEvent(c) with
\* translateContainerEvents for the same ID c, once the translator has
\* written a lifecycle event of c into the cache, that entry is never
\* replaced by the static-lookup entry built by the miss path of get.
C19_MissKeepsLifecycleEntry ==
    [][\A t \in Getters :
          GetterStores(t) => Cached(local[t].id).Type \notin LifecycleTypes
      ]_vars

====
